---- MODULE Spec2Model ----
(***************************************************************************)
(* Availability and conflict checking of the appointment server            *)
(* (database layer: checkAppointmentConflict, getAvailableTimeSlots,       *)
(* checkServiceAvailability, getServiceTimeSlots, createAppointment,       *)
(* cancelAppointment; tool layer: create_appointment,                      *)
(* check_appointment_conflict).                                            *)
(*                                                                         *)
(* Time is counted in minutes since 00:00 of day 0; day 0 is a Monday.     *)
(* The server is assumed to run in UTC, so that toISOString, toTimeString  *)
(* and getDay agree on the date.  A TIME column and the "HH:MM:SS" text    *)
(* cut out of a Date are both minutes since midnight: the code compares    *)
(* them as zero-padded strings, which orders them as the numbers do.       *)
(* Message texts of findings are formatting and are left out.              *)
(*                                                                         *)
(* SpecNight is the same server with bookings and proposals around         *)
(* midnight, SpecConcurrent runs checkAppointmentConflict query by query   *)
(* while other requests write, SpecMem is the in-memory appointment server *)
(* (create_appointment, list_appointments, get_appointment,                *)
(* delete_appointment over an array and a counter).                        *)
(***************************************************************************)
EXTENDS Integers, Sequences, FiniteSets, TLC

VARIABLES
    appointments,   \* table appointments: row id |-> row (ids in creation order)
    lastCall,       \* the request being served: <<>> (idle) or <<request>>
    lastResult,     \* the value its handler returned: <<>> or <<result>>
    memAppointments, \* in-memory server: the array appointments
    nextId,          \* in-memory server: the id counter
    assignedIds      \* history: every id generateId has returned

vars ==
    <<appointments, lastCall, lastResult, memAppointments, nextId, assignedIds>>

\* the state of the in-memory server, which the database server never
\* touches
memVars == <<memAppointments, nextId, assignedIds>>

----------------------------------------------------------------------------
(* Bounds *)

MaxAppts == 2          \* rows ever inserted into appointments
MaxCreates == 3        \* appointments ever created in the in-memory server

----------------------------------------------------------------------------
(* Program constants *)

slotInterval == 30     \* getAvailableTimeSlots: 30-minute intervals
DayMinutes == 24 * 60   \* minutes of a calendar day (Date arithmetic)

BUSINESS_ID == "biz"
NoStaff == "null"      \* staff_id IS NULL
NoId == 0              \* appointment_id not given

ActiveStatuses == {"confirmed", "pending", "scheduled"}

----------------------------------------------------------------------------
(* Stored data other than appointments (tables of database_schema.sql).    *)
(* These tables are not written by any modelled operation.                 *)

services ==
    { [id |-> "svc1", business_id |-> "biz", is_active |-> TRUE,
       duration_minutes |-> 60, buffer_time_minutes |-> 30,
       max_bookings_per_slot |-> 2],
      [id |-> "svc2", business_id |-> "biz", is_active |-> FALSE,
       duration_minutes |-> 60, buffer_time_minutes |-> 0,
       max_bookings_per_slot |-> 1],
      [id |-> "svcX", business_id |-> "other", is_active |-> TRUE,
       duration_minutes |-> 60, buffer_time_minutes |-> 0,
       max_bookings_per_slot |-> 1] }

staff ==
    { [id |-> "st1", business_id |-> "biz", is_active |-> TRUE],
      [id |-> "st2", business_id |-> "biz", is_active |-> FALSE],
      [id |-> "st3", business_id |-> "biz", is_active |-> TRUE],
      [id |-> "st4", business_id |-> "biz", is_active |-> TRUE],
      [id |-> "stX", business_id |-> "other", is_active |-> TRUE] }

customers ==
    { [id |-> "c1", business_id |-> "biz"],
      [id |-> "c2", business_id |-> "biz"],
      [id |-> "c3", business_id |-> "biz"] }

staff_services ==
    { [staff_id |-> "st1", service_id |-> "svc1"],
      [staff_id |-> "st2", service_id |-> "svc1"],
      [staff_id |-> "st2", service_id |-> "svc2"],
      [staff_id |-> "st3", service_id |-> "svc1"],
      [staff_id |-> "st4", service_id |-> "svc1"] }

\* Monday 09:00-11:00 open, Tuesday closed, no row for the other days
working_hours ==
    { [business_id |-> "biz", day_of_week |-> 1, open_time |-> 540,
       close_time |-> 660, is_closed |-> FALSE],
      [business_id |-> "biz", day_of_week |-> 2, open_time |-> 540,
       close_time |-> 660, is_closed |-> TRUE] }

\* st3 has no row at all
staff_working_hours ==
    { [staff_id |-> "st1", day_of_week |-> 1, open_time |-> 540,
       close_time |-> 660, is_available |-> TRUE],
      [staff_id |-> "st2", day_of_week |-> 1, open_time |-> 540,
       close_time |-> 660, is_available |-> TRUE],
      [staff_id |-> "st4", day_of_week |-> 1, open_time |-> 540,
       close_time |-> 660, is_available |-> TRUE] }

\* st4 is away on day 0 from 09:00 to 09:30 and from 10:30 to 11:00
staff_time_off ==
    { [staff_id |-> "st4", date |-> 0, title |-> "early", is_all_day |-> FALSE,
       start_time |-> 540, end_time |-> 570],
      [staff_id |-> "st4", date |-> 0, title |-> "late", is_all_day |-> FALSE,
       start_time |-> 630, end_time |-> 660] }

----------------------------------------------------------------------------
(* Date and time conversions *)

\* startDate.toISOString().split('T')[0], DATE(start_time)
DateOnly(ts) == ts \div DayMinutes

\* startDate.toTimeString().slice(0, 8), start_time::time
TimeOnly(ts) == ts % DayMinutes

\* startDate.getDay(); day 0 is a Monday
DayOfWeek(ts) == (1 + (ts \div DayMinutes)) % 7

\* "HH:MM" as <<hours, minutes>>
minutesToTime(minutes) == <<minutes \div 60, minutes % 60>>

timeToMinutes(timeString) == timeString[1] * 60 + timeString[2]

----------------------------------------------------------------------------
(* checkAppointmentConflict *)

Finding(type, severity, appt) ==
    [type |-> type, severity |-> severity, conflictingAppointment |-> appt]

Opt(cond, finding) == IF cond THEN <<finding>> ELSE <<>>

\* IsError with every finding counted as an error, whatever its severity
IsError_AnySeverity(c) == TRUE

IsError(c) == c.severity = "ERROR"

IsWarning(c) == c.severity = "WARNING"

\* SqlOverlap with the end of the row compared by >= : a row that ends when
\* the bounds start counts as overlapping
SqlOverlap_Closed(a_start, a_end, lo, hi) ==
    \/ (a_start >= lo /\ a_start < hi)
    \/ (a_end >= lo /\ a_end <= hi)
    \/ (a_start <= lo /\ a_end >= hi)

\* SqlOverlap with the start of the row compared by <= : a row that starts
\* when the bounds end counts as overlapping
SqlOverlap_StartInclusive(a_start, a_end, lo, hi) ==
    \/ (a_start >= lo /\ a_start <= hi)
    \/ (a_end > lo /\ a_end <= hi)
    \/ (a_start <= lo /\ a_end >= hi)

\* the WHERE clause on (start_time, end_time) against the bounds ($lo, $hi)
SqlOverlap(a_start, a_end, lo, hi) ==
    \/ (a_start >= lo /\ a_start < hi)
    \/ (a_end > lo /\ a_end <= hi)
    \/ (a_start <= lo /\ a_end >= hi)

\* NotExcluded without the clause: appointment_id is ignored
NotExcluded_Never(id, appointment_id) == TRUE

\* "AND a.id != $5", appended only when appointment_id is given
NotExcluded(id, appointment_id) ==
    appointment_id # NoId => id # appointment_id

\* StaffConflictRows without the status filter: bookings of any status
\* count
StaffConflictRows_AnyStatus(appts, p) ==
    { i \in DOMAIN appts :
        /\ appts[i].staff_id = p.staff_id
        /\ SqlOverlap(appts[i].start_time, appts[i].end_time,
                      p.start_time, p.end_time)
        /\ NotExcluded(i, p.appointment_id) }

\* ids of the rows of the staff double-booking query
StaffConflictRows(appts, p) ==
    { i \in DOMAIN appts :
        /\ appts[i].staff_id = p.staff_id
        /\ appts[i].status \in ActiveStatuses
        /\ SqlOverlap(appts[i].start_time, appts[i].end_time,
                      p.start_time, p.end_time)
        /\ NotExcluded(i, p.appointment_id) }

\* ids of the rows of the customer double-booking query; the inner join
\* with staff drops the rows whose staff_id is NULL
CustomerConflictRows(appts, p) ==
    { i \in DOMAIN appts :
        /\ appts[i].customer_id = p.customer_id
        /\ \E s \in staff : s.id = appts[i].staff_id
        /\ appts[i].status \in ActiveStatuses
        /\ SqlOverlap(appts[i].start_time, appts[i].end_time,
                      p.start_time, p.end_time)
        /\ NotExcluded(i, p.appointment_id) }

\* COUNT(*) of the service capacity query
ServiceConflictCount(appts, p) ==
    Cardinality({ i \in DOMAIN appts :
        /\ appts[i].service_id = p.service_id
        /\ DateOnly(appts[i].start_time) = DateOnly(p.start_time)
        /\ appts[i].status \in ActiveStatuses
        /\ SqlOverlap(appts[i].start_time, appts[i].end_time,
                      p.start_time, p.end_time)
        /\ NotExcluded(i, p.appointment_id) })

\* the value returned by the early returns: no summary
EarlyReturn(conflicts) ==
    [hasConflicts |-> TRUE, conflicts |-> conflicts, summary |-> <<>>]

\* FullReturn with canProceed computed from the number of findings of any
\* severity
FullReturn_AnyFinding(conflicts) ==
    [hasConflicts |-> Len(conflicts) > 0,
     conflicts |-> conflicts,
     summary |-> << [totalConflicts |-> Len(conflicts),
                     errorCount |-> Cardinality({ k \in DOMAIN conflicts :
                                                    IsError(conflicts[k]) }),
                     warningCount |-> Cardinality({ k \in DOMAIN conflicts :
                                                    IsWarning(conflicts[k]) }),
                     canProceed |-> Len(conflicts) = 0] >>]

\* the value returned at the end of the function
FullReturn(conflicts) ==
    [hasConflicts |-> Len(conflicts) > 0,
     conflicts |-> conflicts,
     summary |-> << [totalConflicts |-> Len(conflicts),
                     errorCount |-> Cardinality({ k \in DOMAIN conflicts :
                                                    IsError(conflicts[k]) }),
                     warningCount |-> Cardinality({ k \in DOMAIN conflicts :
                                                    IsWarning(conflicts[k]) }),
                     canProceed |-> Cardinality({ k \in DOMAIN conflicts :
                                                    IsError(conflicts[k]) }) = 0] >>]

\* HoursFindings with the opening times compared by <= : a window that
\* starts at the opening time counts as outside the hours
HoursFindings_OpenExclusive(p, off) ==
    LET dayOfWeek == DayOfWeek(p.start_time)
        startTimeOnly == TimeOnly(p.start_time)
        endTimeOnly == TimeOnly(p.end_time)
        bh == { h \in working_hours :
                  h.business_id = BUSINESS_ID /\ h.day_of_week = dayOfWeek }
        sh == { h \in staff_working_hours :
                  h.staff_id = p.staff_id /\ h.day_of_week = dayOfWeek }
    IN  Opt(bh = {}, Finding("NO_BUSINESS_HOURS", "ERROR", NoId))
        \o Opt(\E h \in bh : h.is_closed,
               Finding("BUSINESS_CLOSED", "ERROR", NoId))
        \o Opt(\E h \in bh : /\ ~h.is_closed
                             /\ (startTimeOnly <= h.open_time
                                 \/ endTimeOnly > h.close_time),
               Finding("OUTSIDE_BUSINESS_HOURS", "ERROR", NoId))
        \o Opt(sh = {}, Finding("STAFF_NO_WORKING_HOURS", "ERROR", NoId))
        \o Opt(\E h \in sh : ~h.is_available,
               Finding("STAFF_NOT_AVAILABLE", "ERROR", NoId))
        \o Opt(\E h \in sh : /\ h.is_available
                             /\ (startTimeOnly <= h.open_time
                                 \/ endTimeOnly > h.close_time),
               Finding("OUTSIDE_STAFF_HOURS", "ERROR", NoId))
        \o Opt(\E t \in off : t.is_all_day,
               Finding("STAFF_TIME_OFF_ALL_DAY", "ERROR", NoId))
        \o Opt(\E t \in off : /\ ~t.is_all_day
                              /\ SqlOverlap(startTimeOnly, endTimeOnly,
                                            t.start_time, t.end_time),
               Finding("STAFF_TIME_OFF_OVERLAP", "ERROR", NoId))

\* checks 5 to 7 of the code: business hours, staff hours, staff time off.
\* rows[0] of the time-off query is any row of it (no ORDER BY): off is
\* that row as a set of at most one element.
HoursFindings(p, off) ==
    LET dayOfWeek == DayOfWeek(p.start_time)
        startTimeOnly == TimeOnly(p.start_time)
        endTimeOnly == TimeOnly(p.end_time)
        bh == { h \in working_hours :
                  h.business_id = BUSINESS_ID /\ h.day_of_week = dayOfWeek }
        sh == { h \in staff_working_hours :
                  h.staff_id = p.staff_id /\ h.day_of_week = dayOfWeek }
    IN  Opt(bh = {}, Finding("NO_BUSINESS_HOURS", "ERROR", NoId))
        \o Opt(\E h \in bh : h.is_closed,
               Finding("BUSINESS_CLOSED", "ERROR", NoId))
        \o Opt(\E h \in bh : /\ ~h.is_closed
                             /\ (startTimeOnly < h.open_time
                                 \/ endTimeOnly > h.close_time),
               Finding("OUTSIDE_BUSINESS_HOURS", "ERROR", NoId))
        \o Opt(sh = {}, Finding("STAFF_NO_WORKING_HOURS", "ERROR", NoId))
        \o Opt(\E h \in sh : ~h.is_available,
               Finding("STAFF_NOT_AVAILABLE", "ERROR", NoId))
        \o Opt(\E h \in sh : /\ h.is_available
                             /\ (startTimeOnly < h.open_time
                                 \/ endTimeOnly > h.close_time),
               Finding("OUTSIDE_STAFF_HOURS", "ERROR", NoId))
        \o Opt(\E t \in off : t.is_all_day,
               Finding("STAFF_TIME_OFF_ALL_DAY", "ERROR", NoId))
        \o Opt(\E t \in off : /\ ~t.is_all_day
                              /\ SqlOverlap(startTimeOnly, endTimeOnly,
                                            t.start_time, t.end_time),
               Finding("STAFF_TIME_OFF_OVERLAP", "ERROR", NoId))

\* BookingFindings with the capacity compared by > instead of >=
BookingFindings_Over(appts, p, now, svc, sRow, cRow) ==
    Opt(sRow # {},
        Finding("STAFF_DOUBLE_BOOKING", "ERROR", CHOOSE i \in sRow : TRUE))
    \o Opt(cRow # {},
           Finding("CUSTOMER_DOUBLE_BOOKING", "ERROR", CHOOSE i \in cRow : TRUE))
    \o Opt(ServiceConflictCount(appts, p) > svc.max_bookings_per_slot,
           Finding("SERVICE_CAPACITY_EXCEEDED", "ERROR", NoId))
    \o Opt(p.start_time >= p.end_time,
           Finding("INVALID_TIME_RANGE", "ERROR", NoId))
    \o Opt(p.start_time < now, Finding("PAST_DATE", "WARNING", NoId))

\* BookingFindings with the range compared by > : a window whose start
\* equals its end is not reported
BookingFindings_StrictRange(appts, p, now, svc, sRow, cRow) ==
    Opt(sRow # {},
        Finding("STAFF_DOUBLE_BOOKING", "ERROR", CHOOSE i \in sRow : TRUE))
    \o Opt(cRow # {},
           Finding("CUSTOMER_DOUBLE_BOOKING", "ERROR", CHOOSE i \in cRow : TRUE))
    \o Opt(ServiceConflictCount(appts, p) >= svc.max_bookings_per_slot,
           Finding("SERVICE_CAPACITY_EXCEEDED", "ERROR", NoId))
    \o Opt(p.start_time > p.end_time,
           Finding("INVALID_TIME_RANGE", "ERROR", NoId))
    \o Opt(p.start_time < now, Finding("PAST_DATE", "WARNING", NoId))

\* checks 8 to 11 of the code; sRow and cRow are rows[0] of the two
\* double-booking queries, as sets of at most one row id
BookingFindings(appts, p, now, svc, sRow, cRow) ==
    Opt(sRow # {},
        Finding("STAFF_DOUBLE_BOOKING", "ERROR", CHOOSE i \in sRow : TRUE))
    \o Opt(cRow # {},
           Finding("CUSTOMER_DOUBLE_BOOKING", "ERROR", CHOOSE i \in cRow : TRUE))
    \o Opt(ServiceConflictCount(appts, p) >= svc.max_bookings_per_slot,
           Finding("SERVICE_CAPACITY_EXCEEDED", "ERROR", NoId))
    \o Opt(p.start_time >= p.end_time,
           Finding("INVALID_TIME_RANGE", "ERROR", NoId))
    \o Opt(p.start_time < now, Finding("PAST_DATE", "WARNING", NoId))

\* the sets of at most one element a query's rows[0] can be
FirstRow(rows) == IF rows = {} THEN { {} } ELSE { {r} : r \in rows }

\* checkAppointmentConflict with the staff-service test skipped when the
\* service is inactive
checkAppointmentConflict_SkipEligibility(appts, p, now) ==
    LET serviceRows == { s \in services :
                           s.id = p.service_id /\ s.business_id = BUSINESS_ID }
        staffRows == { s \in staff :
                         s.id = p.staff_id /\ s.business_id = BUSINESS_ID }
        customerRows == { c \in customers :
                            c.id = p.customer_id /\ c.business_id = BUSINESS_ID }
        service == CHOOSE s \in serviceRows : TRUE
        staffRow == CHOOSE s \in staffRows : TRUE
        c1 == Opt(~service.is_active, Finding("SERVICE_INACTIVE", "ERROR", NoId))
        c2 == c1 \o Opt(~staffRow.is_active,
                        Finding("STAFF_INACTIVE", "ERROR", NoId))
        c4 == c2 \o Opt(service.is_active /\ ~\E ss \in staff_services :
                            ss.staff_id = p.staff_id /\ ss.service_id = p.service_id,
                        Finding("STAFF_SERVICE_MISMATCH", "ERROR", NoId))
        timeOffRows == { t \in staff_time_off :
                           t.staff_id = p.staff_id
                           /\ t.date = DateOnly(p.start_time) }
    IN  IF serviceRows = {}
        THEN { EarlyReturn(<<Finding("SERVICE_NOT_FOUND", "ERROR", NoId)>>) }
        ELSE IF staffRows = {}
        THEN { EarlyReturn(c1 \o <<Finding("STAFF_NOT_FOUND", "ERROR", NoId)>>) }
        ELSE IF customerRows = {}
        THEN { EarlyReturn(c2 \o <<Finding("CUSTOMER_NOT_FOUND", "ERROR", NoId)>>) }
        ELSE { FullReturn(c4 \o HoursFindings(p, off)
                             \o BookingFindings(appts, p, now, service, sRow, cRow)) :
                 off \in FirstRow(timeOffRows),
                 sRow \in FirstRow(StaffConflictRows(appts, p)),
                 cRow \in FirstRow(CustomerConflictRows(appts, p)) }

\* every value the function can return for proposal p at time now
checkAppointmentConflict(appts, p, now) ==
    LET serviceRows == { s \in services :
                           s.id = p.service_id /\ s.business_id = BUSINESS_ID }
        staffRows == { s \in staff :
                         s.id = p.staff_id /\ s.business_id = BUSINESS_ID }
        customerRows == { c \in customers :
                            c.id = p.customer_id /\ c.business_id = BUSINESS_ID }
        service == CHOOSE s \in serviceRows : TRUE
        staffRow == CHOOSE s \in staffRows : TRUE
        c1 == Opt(~service.is_active, Finding("SERVICE_INACTIVE", "ERROR", NoId))
        c2 == c1 \o Opt(~staffRow.is_active,
                        Finding("STAFF_INACTIVE", "ERROR", NoId))
        c4 == c2 \o Opt(~\E ss \in staff_services :
                            ss.staff_id = p.staff_id /\ ss.service_id = p.service_id,
                        Finding("STAFF_SERVICE_MISMATCH", "ERROR", NoId))
        timeOffRows == { t \in staff_time_off :
                           t.staff_id = p.staff_id
                           /\ t.date = DateOnly(p.start_time) }
    IN  IF serviceRows = {}
        THEN { EarlyReturn(<<Finding("SERVICE_NOT_FOUND", "ERROR", NoId)>>) }
        ELSE IF staffRows = {}
        THEN { EarlyReturn(c1 \o <<Finding("STAFF_NOT_FOUND", "ERROR", NoId)>>) }
        ELSE IF customerRows = {}
        THEN { EarlyReturn(c2 \o <<Finding("CUSTOMER_NOT_FOUND", "ERROR", NoId)>>) }
        ELSE { FullReturn(c4 \o HoursFindings(p, off)
                             \o BookingFindings(appts, p, now, service, sRow, cRow)) :
                 off \in FirstRow(timeOffRows),
                 sRow \in FirstRow(StaffConflictRows(appts, p)),
                 cRow \in FirstRow(CustomerConflictRows(appts, p)) }

\* Can Proceed as the tool check_appointment_conflict reports it
CanProceed(result) ==
    IF result.hasConflicts
    THEN result.summary # <<>> /\ result.summary[1].canProceed
    ELSE TRUE

----------------------------------------------------------------------------
(* getAvailableTimeSlots *)

\* the staff who have no appointment of the listed rows overlapping the
\* slot starting at currentMinutes, buffer time added on both sides
SlotStaff(existing, staffIds, currentMinutes, serviceDuration, bufferTime) ==
    { st \in staffIds :
        ~\E a \in existing :
            /\ a.staff_id = st
            /\ currentMinutes
                 < timeToMinutes(minutesToTime(TimeOnly(a.end_time))) + bufferTime
            /\ currentMinutes + serviceDuration + bufferTime
                 > timeToMinutes(minutesToTime(TimeOnly(a.start_time))) }

\* the for loop over currentMinutes
RECURSIVE SlotLoop(_, _, _, _, _)
SlotLoop(existing, staffIds, currentMinutes, closeMinutes, service) ==
    LET serviceDuration == service.duration_minutes
        bufferTime == service.buffer_time_minutes
        maxBookingsPerSlot == service.max_bookings_per_slot
    IN  IF currentMinutes + serviceDuration <= closeMinutes
        THEN LET availableStaff == SlotStaff(existing, staffIds, currentMinutes,
                                             serviceDuration, bufferTime)
                 slot == [start_time |-> minutesToTime(currentMinutes),
                          end_time |->
                              minutesToTime(currentMinutes + serviceDuration),
                          available_staff |-> availableStaff,
                          available_slots |->
                              IF Cardinality(availableStaff) < maxBookingsPerSlot
                              THEN Cardinality(availableStaff)
                              ELSE maxBookingsPerSlot]
             IN  Opt(availableStaff # {}, slot)
                 \o SlotLoop(existing, staffIds, currentMinutes + slotInterval,
                             closeMinutes, service)
        ELSE <<>>

\* threw: the Error "Service not found"; is_open is read as NOT is_closed
getAvailableTimeSlots(appts, service_id, date) ==
    LET dayOfWeek == DayOfWeek(date * DayMinutes)
        serviceRows == { s \in services :
                           s.id = service_id /\ s.business_id = BUSINESS_ID }
        service == CHOOSE s \in serviceRows : TRUE
        businessHours == { h \in working_hours :
                             /\ h.business_id = BUSINESS_ID
                             /\ h.day_of_week = dayOfWeek
                             /\ ~h.is_closed }
        hours == CHOOSE h \in businessHours : TRUE
        staffIds == { st.id : st \in { x \in staff :
                        /\ x.business_id = BUSINESS_ID
                        /\ x.is_active
                        /\ \E ss \in staff_services :
                              ss.staff_id = x.id /\ ss.service_id = service_id } }
        existing == { appts[i] : i \in { j \in DOMAIN appts :
                        /\ appts[j].service_id = service_id
                        /\ DateOnly(appts[j].start_time) = date
                        /\ appts[j].status # "cancelled" } }
    IN  IF serviceRows = {} THEN [threw |-> TRUE, timeSlots |-> <<>>]
        ELSE IF businessHours = {} THEN [threw |-> FALSE, timeSlots |-> <<>>]
        ELSE IF staffIds = {} THEN [threw |-> FALSE, timeSlots |-> <<>>]
        ELSE [threw |-> FALSE,
              timeSlots |-> SlotLoop(existing, staffIds,
                                     timeToMinutes(minutesToTime(hours.open_time)),
                                     timeToMinutes(minutesToTime(hours.close_time)),
                                     service)]

----------------------------------------------------------------------------
(* checkServiceAvailability, getServiceTimeSlots *)

NoTime == 0 - 1        \* argument time not given

NoTitle == ""           \* sto.title of a row without a joined time off

\* the rows of the staff query: staff of the business, active, providing
\* the service, joined with their available working-hours row of the
\* weekday and LEFT JOINed with their time-off rows of the date: one row
\* for each time-off row that is not all-day, or one row with NULLs when
\* the staff member has no time-off row on the date; has_time_off tells a
\* time-off row was joined
ServiceStaffRows(service_id, date) ==
    LET dayOfWeek == DayOfWeek(date * DayMinutes)
        off(id) == { t \in staff_time_off : t.staff_id = id /\ t.date = date }
        joined(id) == IF off(id) = {} THEN { NoTitle }
                      ELSE { t.title : t \in { u \in off(id) : ~u.is_all_day } }
        hours == { y \in staff_working_hours :
                     /\ y.day_of_week = dayOfWeek
                     /\ y.is_available
                     /\ \E x \in staff :
                           /\ x.id = y.staff_id
                           /\ x.business_id = BUSINESS_ID
                           /\ x.is_active
                     /\ \E ss \in staff_services :
                           ss.staff_id = y.staff_id /\ ss.service_id = service_id }
    IN  UNION { { [staff_id |-> h.staff_id, open_time |-> h.open_time,
                   close_time |-> h.close_time,
                   has_time_off |-> title # NoTitle,
                   time_off_title |-> title] : title \in joined(h.staff_id) } :
                h \in hours }

\* COUNT(*) of the appointments query, with or without a time
AvailabilityCount(appts, service, date, time) ==
    LET slotEndTime == TimeOnly(time + service.duration_minutes)
    IN  Cardinality({ i \in DOMAIN appts :
            /\ appts[i].service_id = service.id
            /\ DateOnly(appts[i].start_time) = date
            /\ appts[i].status \in ActiveStatuses
            /\ (time # NoTime =>
                  SqlOverlap(TimeOnly(appts[i].start_time),
                             TimeOnly(appts[i].end_time), time, slotEndTime)) })

\* the service is looked up by name; a name is taken to match one service
checkServiceAvailability(appts, service_name, date, time) ==
    LET serviceRows == { s \in services :
                           /\ s.id = service_name
                           /\ s.business_id = BUSINESS_ID
                           /\ s.is_active }
        service == CHOOSE s \in serviceRows : TRUE
        staffRows == ServiceStaffRows(service_name, date)
        availableStaff ==
            IF time = NoTime THEN staffRows
            ELSE { r \in staffRows :
                     /\ ~r.has_time_off
                     /\ time >= r.open_time
                     /\ time < r.close_time }
        existingAppointments == AvailabilityCount(appts, service, date, time)
        none == [available |-> FALSE, service |-> <<>>, staff |-> {},
                 existingAppointments |-> 0, maxBookings |-> 0,
                 remainingSlots |-> 0]
    IN  IF serviceRows = {} THEN none
        ELSE IF staffRows = {}
        THEN [none EXCEPT !.service = <<service>>]
        ELSE IF availableStaff = {}
        THEN [none EXCEPT !.service = <<service>>, !.staff = staffRows]
        ELSE IF existingAppointments >= service.max_bookings_per_slot
        THEN [none EXCEPT !.service = <<service>>, !.staff = availableStaff,
                          !.existingAppointments = existingAppointments,
                          !.maxBookings = service.max_bookings_per_slot]
        ELSE [available |-> TRUE, service |-> <<service>>,
              staff |-> availableStaff,
              existingAppointments |-> existingAppointments,
              maxBookings |-> service.max_bookings_per_slot,
              remainingSlots |-> service.max_bookings_per_slot
                                   - existingAppointments]

\* the while loop over currentTime for one staff row
RECURSIVE StaffSlotLoop(_, _, _, _, _, _)
StaffSlotLoop(appts, service, date, row, currentTime, endTime) ==
    IF currentTime < endTime
    THEN LET slotEnd == currentTime + service.duration_minutes
             slotAvailability ==
                 checkServiceAvailability(appts, service.id, date,
                                          TimeOnly(currentTime))
             slot == [staff_id |-> row.staff_id,
                      start_time |-> TimeOnly(currentTime),
                      end_time |-> TimeOnly(slotEnd),
                      remaining_slots |-> slotAvailability.remainingSlots,
                      total_slots |-> slotAvailability.maxBookings,
                      existing_appointments |->
                          slotAvailability.existingAppointments]
         IN  Opt(slotEnd <= endTime /\ slotAvailability.available, slot)
             \o StaffSlotLoop(appts, service, date, row,
                              currentTime + slotInterval, endTime)
    ELSE <<>>

\* ORDER BY s.first_name, s.last_name: the staff in the order of their names
StaffOrder == <<"st1", "st2", "st3", "st4", "stX">>

\* seq repeated n times
RECURSIVE Times(_, _)
Times(seq, n) == IF n = 0 THEN <<>> ELSE seq \o Times(seq, n - 1)

\* the for loop over the staff rows, from the k-th name on; the rows of one
\* staff member differ in the joined time off only and yield the same slots
RECURSIVE StaffLoop(_, _, _, _, _)
StaffLoop(appts, service, date, rows, k) ==
    IF k > Len(StaffOrder) THEN <<>>
    ELSE LET mine == { r \in rows : r.staff_id = StaffOrder[k] }
         IN  (IF mine = {} THEN <<>>
              ELSE LET row == CHOOSE r \in mine : TRUE
                   IN  Times(StaffSlotLoop(appts, service, date, row,
                                           row.open_time, row.close_time),
                             Cardinality(mine)))
             \o StaffLoop(appts, service, date, rows, k + 1)

getServiceTimeSlots(appts, service_name, date) ==
    LET availability == checkServiceAvailability(appts, service_name, date, NoTime)
        timeSlots == StaffLoop(appts, availability.service[1], date,
                               availability.staff, 1)
    IN  IF ~availability.available
        THEN [available |-> FALSE, timeSlots |-> <<>>]
        ELSE [available |-> Len(timeSlots) > 0, timeSlots |-> timeSlots]

----------------------------------------------------------------------------
(* Requests *)

BookWindows == { <<540, 600>> }

ProposalWindows ==
    { <<540, 600>>, <<570, 630>>, <<600, 660>>, <<600, 540>>, <<540, 540>>,
      <<1380, 1440>> }

NowSet == { 0, 570 }

CreateRequests ==
    [customer_id : {"c1", "c2"}, service_id : {"svc1"},
     staff_id : {"st1", NoStaff}, window : BookWindows]

\* requests for the staff members st1, st2 and stX with every combination
\* of the other arguments; for st4 (time off) and without staff_id, new
\* proposals of service svc1
Proposals ==
    [service_id : {"svc1", "svc2", "svcX"}, staff_id : {"st1", "st2", "stX"},
     customer_id : {"c1", "c2", "cX"}, window : ProposalWindows,
     appointment_id : {NoId} \cup (1..MaxAppts)]
    \cup [service_id : {"svc1"}, staff_id : {"st4", NoStaff},
          customer_id : {"c1", "c2"}, window : ProposalWindows,
          appointment_id : {NoId}]

ListServices == {"svc1", "svc2", "svcX"}

ListDates == {0, 1}

AvailabilityTimes == {NoTime, 540, 570}

\* the arguments of checkAppointmentConflict for a request
Args(q) ==
    [service_id |-> q.service_id, staff_id |-> q.staff_id,
     customer_id |-> q.customer_id, start_time |-> q.window[1],
     end_time |-> q.window[2], appointment_id |-> q.appointment_id]

----------------------------------------------------------------------------
(* Operations *)

Init ==
    /\ appointments = <<>>
    /\ lastCall = <<>>
    /\ lastResult = <<>>
    /\ memAppointments = <<>>
    /\ nextId = 1
    /\ assignedIds = {}

\* tool create_appointment -> createAppointment: one INSERT, status
\* 'scheduled'; no check runs before it
CreateAppointment ==
    /\ lastCall = <<>>
    /\ UNCHANGED memVars
    /\ Len(appointments) < MaxAppts
    /\ \E q \in CreateRequests :
        /\ appointments' = Append(appointments,
               [customer_id |-> q.customer_id, service_id |-> q.service_id,
                staff_id |-> q.staff_id, start_time |-> q.window[1],
                end_time |-> q.window[2], status |-> "scheduled"])
        /\ lastCall' = << [op |-> "create_appointment", request |-> q] >>
        /\ lastResult' = << Len(appointments) + 1 >>

\* tool cancel_appointment -> cancelAppointment -> SQL function
\* cancel_appointment: the row's status becomes 'canceled'
CancelAppointment ==
    /\ lastCall = <<>>
    /\ UNCHANGED memVars
    /\ \E id \in DOMAIN appointments :
        /\ appointments[id].status \in ActiveStatuses
        /\ appointments' = [appointments EXCEPT ![id].status = "canceled"]
        /\ lastCall' = << [op |-> "cancel_appointment", request |-> id] >>
        /\ lastResult' = << id >>

\* the response to a request that schema.parse rejects
ValidationError == [isError |-> TRUE]

\* tool check_appointment_conflict -> checkAppointmentConflict; the schema
\* requires staff_id, a request without it is answered with an error and
\* the function is not called
CheckAppointmentConflict ==
    /\ lastCall = <<>>
    /\ UNCHANGED memVars
    /\ \E q \in Proposals, now \in NowSet :
        \E r \in IF q.staff_id = NoStaff THEN { ValidationError }
                  ELSE checkAppointmentConflict(appointments, Args(q), now) :
            /\ lastCall' = << [op |-> "check_appointment_conflict",
                               request |-> q, now |-> now] >>
            /\ lastResult' = << r >>
            /\ UNCHANGED appointments

\* tool get_available_time_slots -> getAvailableTimeSlots
GetAvailableTimeSlots ==
    /\ lastCall = <<>>
    /\ UNCHANGED memVars
    /\ \E service_id \in ListServices, date \in ListDates :
        /\ lastCall' = << [op |-> "get_available_time_slots",
                           request |-> [service_id |-> service_id,
                                        date |-> date]] >>
        /\ lastResult' = << getAvailableTimeSlots(appointments, service_id, date) >>
        /\ UNCHANGED appointments

\* tool get_service_time_slots -> getServiceTimeSlots
GetServiceTimeSlots ==
    /\ lastCall = <<>>
    /\ UNCHANGED memVars
    /\ \E service_id \in ListServices, date \in ListDates :
        /\ lastCall' = << [op |-> "get_service_time_slots",
                           request |-> [service_id |-> service_id,
                                        date |-> date]] >>
        /\ lastResult' = << getServiceTimeSlots(appointments, service_id, date) >>
        /\ UNCHANGED appointments

\* tool check_service_availability -> checkServiceAvailability
CheckServiceAvailability ==
    /\ lastCall = <<>>
    /\ UNCHANGED memVars
    /\ \E service_name \in ListServices, date \in ListDates,
          time \in AvailabilityTimes :
        /\ lastCall' = << [op |-> "check_service_availability",
                           request |-> [service_name |-> service_name,
                                        date |-> date, time |-> time]] >>
        /\ lastResult' = << checkServiceAvailability(appointments, service_name,
                                                     date, time) >>
        /\ UNCHANGED appointments

\* the handler's return value is sent as the tool response; the server
\* takes the next request
Respond ==
    /\ lastCall # <<>>
    /\ UNCHANGED memVars
    /\ lastCall' = <<>>
    /\ lastResult' = <<>>
    /\ UNCHANGED appointments

Next ==
    \/ CreateAppointment
    \/ CancelAppointment
    \/ CheckAppointmentConflict
    \/ GetAvailableTimeSlots
    \/ GetServiceTimeSlots
    \/ CheckServiceAvailability
    \/ Respond

Spec == Init /\ [][Next]_vars

----------------------------------------------------------------------------
(* Vocabulary of the properties *)

\* checkAppointmentConflict was called and returned lastResult[1]
Checked ==
    /\ lastCall # <<>>
    /\ lastCall[1].op = "check_appointment_conflict"
    /\ lastResult[1] # ValidationError

Listed ==
    /\ lastCall # <<>>
    /\ lastCall[1].op \in {"get_available_time_slots", "get_service_time_slots"}

Cancelled == lastCall # <<>> /\ lastCall[1].op = "cancel_appointment"

lastArgs == Args(lastCall[1].request)

Types(result) == { result.conflicts[k].type : k \in DOMAIN result.conflicts }

HasError(result) == \E k \in DOMAIN result.conflicts : IsError(result.conflicts[k])

\* the function ran to its end: service, staff member and customer were found
FullPath(result) == result.summary # <<>>

ValidWindow(start_time, end_time) == start_time < end_time

\* half-open interval overlap of [s1, e1) and [s2, e2)
HalfOpenOverlap(s1, e1, s2, e2) == s1 < e2 /\ s2 < e1

\* the active bookings of a service that start on the date of the window
\* <<lo, hi>> and overlap it, other than the booking except
ActiveOnWindow(appts, service_id, lo, hi, except) ==
    { i \in DOMAIN appts :
        /\ i # except
        /\ appts[i].service_id = service_id
        /\ appts[i].status \in {"scheduled", "confirmed"}
        /\ DateOnly(appts[i].start_time) = DateOnly(lo)
        /\ HalfOpenOverlap(appts[i].start_time, appts[i].end_time, lo, hi) }

MaxBookings(service_id) ==
    (CHOOSE s \in services : s.id = service_id).max_bookings_per_slot

EntityTypes ==
    {"SERVICE_NOT_FOUND", "SERVICE_INACTIVE", "STAFF_NOT_FOUND",
     "STAFF_INACTIVE", "CUSTOMER_NOT_FOUND"}

HoursCapacityTypes ==
    {"NO_BUSINESS_HOURS", "BUSINESS_CLOSED", "OUTSIDE_BUSINESS_HOURS",
     "STAFF_NO_WORKING_HOURS", "STAFF_NOT_AVAILABLE", "OUTSIDE_STAFF_HOURS",
     "STAFF_TIME_OFF_ALL_DAY", "STAFF_TIME_OFF_OVERLAP",
     "SERVICE_CAPACITY_EXCEEDED"}

\* the customers of the business without any appointment row
FreeCustomers ==
    { c.id : c \in { x \in customers :
                       /\ x.business_id = BUSINESS_ID
                       /\ ~\E i \in DOMAIN appointments :
                             appointments[i].customer_id = x.id } }

\* the staff who are active and provide the service
EligibleStaff(service_id) ==
    { st.id : st \in { x \in staff :
                         /\ x.business_id = BUSINESS_ID
                         /\ x.is_active
                         /\ \E ss \in staff_services :
                               ss.staff_id = x.id /\ ss.service_id = service_id } }

\* the slots of the last listing as <<staff id, start, end>>, in minutes
\* since day 0 00:00
ListedSlots ==
    LET date == lastCall[1].request.date
        slots == lastResult[1].timeSlots
    IN  IF lastCall[1].op = "get_available_time_slots"
        THEN UNION { { <<st, date * DayMinutes
                                + timeToMinutes(slots[k].start_time),
                             date * DayMinutes
                                + timeToMinutes(slots[k].end_time)>> :
                           st \in slots[k].available_staff } :
                       k \in DOMAIN slots }
        ELSE { <<slots[k].staff_id, date * DayMinutes + slots[k].start_time,
                 date * DayMinutes + slots[k].end_time>> : k \in DOMAIN slots }

\* the proposal of a listed slot, for a customer
SlotProposal(service_id, slot, customer_id) ==
    [service_id |-> service_id, staff_id |-> slot[1],
     customer_id |-> customer_id, start_time |-> slot[2],
     end_time |-> slot[3], appointment_id |-> NoId]

\* the windows of the service's duration on the 30-minute grid of the date's
\* opening time, up to the closing time
GridWindows(service_id, date) ==
    LET d == (CHOOSE s \in services : s.id = service_id).duration_minutes
        open(h) == date * DayMinutes + h.open_time
    IN  UNION { { <<open(h) + k * slotInterval, open(h) + k * slotInterval + d>> :
                    k \in 0..((h.close_time - h.open_time) \div slotInterval) } :
                h \in { x \in working_hours :
                          x.day_of_week = DayOfWeek(date * DayMinutes) } }

----------------------------------------------------------------------------
(* C1 *)

\* C1: every slot a slot listing returns, proposed verbatim for a staff
\* member listed for it and a customer without bookings, is accepted by
\* checkAppointmentConflict on the same data (canProceed = true).
C1_ListingImpliesChecking ==
    Listed =>
        \A slot \in ListedSlots : \A c \in FreeCustomers :
            \A r \in checkAppointmentConflict(appointments,
                        SlotProposal(lastCall[1].request.service_id, slot, c), 0) :
                FullPath(r) /\ r.summary[1].canProceed

----------------------------------------------------------------------------
(* C2 *)

\* C2: every grid-aligned window of the service's duration that a slot
\* listing does not return for an eligible staff member is rejected by
\* checkAppointmentConflict with an ERROR of the business-hours,
\* staff-hours, time-off or capacity checks.
C2_CheckingImpliesListing ==
    Listed =>
        LET service_id == lastCall[1].request.service_id
            date == lastCall[1].request.date
        IN  \A st \in EligibleStaff(service_id) :
            \A w \in GridWindows(service_id, date) :
                <<st, w[1], w[2]>> \notin ListedSlots =>
                    \A c \in FreeCustomers :
                    \A r \in checkAppointmentConflict(appointments,
                                SlotProposal(service_id, <<st, w[1], w[2]>>, c), 0) :
                        \E k \in DOMAIN r.conflicts :
                            /\ IsError(r.conflicts[k])
                            /\ r.conflicts[k].type \in HoursCapacityTypes

----------------------------------------------------------------------------
(* C3 *)

\* C3: every result of checkAppointmentConflict, early returns included,
\* carries canProceed = true exactly when its conflict list has no finding
\* of severity ERROR; the tool reports Can Proceed accordingly.
C3_CanProceedIffNoError ==
    Checked =>
        /\ (FullPath(lastResult[1]) /\ lastResult[1].summary[1].canProceed)
              <=> ~HasError(lastResult[1])
        /\ CanProceed(lastResult[1]) <=> ~HasError(lastResult[1])

\* a check returned early: its result has no summary and holds an ERROR
C3_Witness ==
    /\ Checked
    /\ ~FullPath(lastResult[1])
    /\ HasError(lastResult[1])

----------------------------------------------------------------------------
(* C4 *)

----------------------------------------------------------------------------
(* C5 *)

\* C5 as stated: for all windows a and b the overlap test gives the same
\* answer for (existing = a, proposal = b) and (existing = b, proposal = a).
C5_OverlapSymmetricAnyWindow ==
    Checked =>
        \A i \in DOMAIN appointments :
            SqlOverlap(appointments[i].start_time, appointments[i].end_time,
                       lastArgs.start_time, lastArgs.end_time)
            <=> SqlOverlap(lastArgs.start_time, lastArgs.end_time,
                           appointments[i].start_time, appointments[i].end_time)

\* C5 amended: for all windows a and b with start < end the overlap test
\* gives the same answer for (existing = a, proposal = b) and
\* (existing = b, proposal = a).
C5_OverlapSymmetric ==
    (Checked /\ ValidWindow(lastArgs.start_time, lastArgs.end_time)) =>
        \A i \in DOMAIN appointments :
            ValidWindow(appointments[i].start_time, appointments[i].end_time) =>
               (SqlOverlap(appointments[i].start_time, appointments[i].end_time,
                           lastArgs.start_time, lastArgs.end_time)
                <=> SqlOverlap(lastArgs.start_time, lastArgs.end_time,
                               appointments[i].start_time,
                               appointments[i].end_time))

\* a proposal was checked against a booking it overlaps without being equal
\* to it, and against the same booking the test holds in both directions
C5_Witness ==
    /\ Checked
    /\ ValidWindow(lastArgs.start_time, lastArgs.end_time)
    /\ \E i \in DOMAIN appointments :
          /\ appointments[i].start_time < lastArgs.start_time
          /\ lastArgs.start_time < appointments[i].end_time
          /\ appointments[i].end_time < lastArgs.end_time
          /\ SqlOverlap(lastArgs.start_time, lastArgs.end_time,
                        appointments[i].start_time, appointments[i].end_time)

----------------------------------------------------------------------------
(* C6 *)

\* the service, staff member and customer of the proposal are rows of the
\* business
EntitiesExist(p) ==
    /\ \E x \in services : x.id = p.service_id /\ x.business_id = BUSINESS_ID
    /\ \E x \in staff : x.id = p.staff_id /\ x.business_id = BUSINESS_ID
    /\ \E x \in customers : x.id = p.customer_id /\ x.business_id = BUSINESS_ID

\* C6 as stated: once the active bookings of a service overlapping a window
\* number exactly maxBookingsPerSlot, the check of any further proposal of
\* that service on that window reports SERVICE_CAPACITY_EXCEEDED.
C6_CapacityAnyProposal ==
    (/\ Checked
     /\ lastArgs.appointment_id = NoId
     /\ ValidWindow(lastArgs.start_time, lastArgs.end_time)
     /\ \E x \in services :
           x.id = lastArgs.service_id /\ x.business_id = BUSINESS_ID
     /\ Cardinality(ActiveOnWindow(appointments, lastArgs.service_id,
                                   lastArgs.start_time, lastArgs.end_time, NoId))
          = MaxBookings(lastArgs.service_id))
    => "SERVICE_CAPACITY_EXCEEDED" \in Types(lastResult[1])

\* a check of a new proposal p (no appointment_id) with start < end whose
\* service, staff member and customer exist
FurtherProposal(p) ==
    /\ p.appointment_id = NoId
    /\ ValidWindow(p.start_time, p.end_time)
    /\ EntitiesExist(p)

CapacityReached(appts, p) ==
    Cardinality(ActiveOnWindow(appts, p.service_id, p.start_time, p.end_time,
                               NoId)) = MaxBookings(p.service_id)

\* the step of a check of a further proposal on a window at capacity
\* reports the finding
C6_FullIsRejected ==
    (/\ lastCall' # <<>>
     /\ lastCall'[1].op = "check_appointment_conflict"
     /\ FurtherProposal(Args(lastCall'[1].request))
     /\ CapacityReached(appointments', Args(lastCall'[1].request)))
    => "SERVICE_CAPACITY_EXCEEDED" \in Types(lastResult'[1])

\* the step that cancels one of the bookings that fill a window leaves no
\* result of the check of a further proposal on it with the finding
C6_CancelRestores ==
    (lastCall' # <<>> /\ lastCall'[1].op = "cancel_appointment") =>
        \A q \in Proposals :
            (/\ FurtherProposal(Args(q))
             /\ CapacityReached(appointments, Args(q))
             /\ lastResult'[1] \in ActiveOnWindow(appointments, q.service_id,
                                                  q.window[1], q.window[2], NoId))
            => \A now \in NowSet :
               \A r \in checkAppointmentConflict(appointments', Args(q), now) :
                   "SERVICE_CAPACITY_EXCEEDED" \notin Types(r)

\* C6 for bookings of the window's date: once bookings created for a
\* service bring the number of its
\* active bookings that start on the window's date and overlap the window
\* to exactly maxBookingsPerSlot, checkAppointmentConflict for any further
\* proposal of that service on the same window whose staff member and
\* customer exist reports ERROR capacity-exceeded; after one of those
\* bookings is cancelled, the same proposal no longer reports it.
C6_CapacitySequence == [][C6_FullIsRejected /\ C6_CancelRestores]_vars

\* a further proposal was checked on a window one unit below capacity
\* because a booking of the service on that window is canceled, and the
\* result has no capacity finding
C6_Witness ==
    /\ Checked
    /\ FurtherProposal(lastArgs)
    /\ Cardinality(ActiveOnWindow(appointments, lastArgs.service_id,
                                  lastArgs.start_time, lastArgs.end_time, NoId))
         = MaxBookings(lastArgs.service_id) - 1
    /\ \E i \in DOMAIN appointments :
          /\ appointments[i].status = "canceled"
          /\ appointments[i].service_id = lastArgs.service_id
          /\ HalfOpenOverlap(appointments[i].start_time, appointments[i].end_time,
                             lastArgs.start_time, lastArgs.end_time)
    /\ "SERVICE_CAPACITY_EXCEEDED" \notin Types(lastResult[1])

----------------------------------------------------------------------------
(* C7 *)

\* the proposal names the stored booking id and repeats its service, staff
\* member, customer and window
SelfCheck(p, id) ==
    /\ id \in DOMAIN appointments
    /\ p.appointment_id = id
    /\ p.service_id = appointments[id].service_id
    /\ p.staff_id = appointments[id].staff_id
    /\ p.customer_id = appointments[id].customer_id
    /\ p.start_time = appointments[id].start_time
    /\ p.end_time = appointments[id].end_time

\* C7: a check with appointment_id set to an existing booking and with that
\* booking's own service, staff, customer and window has no double-booking
\* finding that refers to that booking, and reports capacity-exceeded only
\* if the other active bookings alone fill the window.
C7_SelfExclusion ==
    Checked =>
        \A id \in DOMAIN appointments :
            SelfCheck(lastArgs, id) =>
                /\ \A k \in DOMAIN lastResult[1].conflicts :
                      lastResult[1].conflicts[k].conflictingAppointment # id
                /\ "SERVICE_CAPACITY_EXCEEDED" \in Types(lastResult[1]) =>
                      Cardinality(ActiveOnWindow(appointments, lastArgs.service_id,
                                                 lastArgs.start_time,
                                                 lastArgs.end_time, id))
                        >= MaxBookings(lastArgs.service_id)

\* an active booking was re-checked against itself and the check found
\* nothing
C7_Witness ==
    /\ Checked
    /\ \E id \in DOMAIN appointments :
          /\ SelfCheck(lastArgs, id)
          /\ appointments[id].status = "scheduled"
    /\ FullPath(lastResult[1])
    /\ lastResult[1].conflicts = <<>>

----------------------------------------------------------------------------
(* C8 *)

\* C8: on the same proposal, stored data and evaluation time every run of
\* checkAppointmentConflict returns the same conflict list.
C8_Deterministic ==
    Checked =>
        \A r \in checkAppointmentConflict(appointments, lastArgs, lastCall[1].now) :
            r.conflicts = lastResult[1].conflicts

----------------------------------------------------------------------------
(* C9 *)

AdmissionTypes ==
    {"STAFF_DOUBLE_BOOKING", "CUSTOMER_DOUBLE_BOOKING",
     "SERVICE_CAPACITY_EXCEEDED", "OUTSIDE_BUSINESS_HOURS",
     "OUTSIDE_STAFF_HOURS"}

\* C9: no stored active booking has a staff double-booking, customer
\* double-booking, capacity or outside-hours conflict with the bookings
\* stored before it.
C9_AdmissionControl ==
    \A id \in DOMAIN appointments :
        appointments[id].status \in ActiveStatuses =>
            \A r \in checkAppointmentConflict(SubSeq(appointments, 1, id - 1),
                        [service_id |-> appointments[id].service_id,
                         staff_id |-> appointments[id].staff_id,
                         customer_id |-> appointments[id].customer_id,
                         start_time |-> appointments[id].start_time,
                         end_time |-> appointments[id].end_time,
                         appointment_id |-> NoId], 0) :
                Types(r) \cap AdmissionTypes = {}

----------------------------------------------------------------------------
(* C10 *)

\* the service or the staff member is missing, of another business or
\* inactive, or the customer is missing
EntityFailure(p) ==
    \/ ~\E x \in services :
          x.id = p.service_id /\ x.business_id = BUSINESS_ID /\ x.is_active
    \/ ~\E x \in staff :
          x.id = p.staff_id /\ x.business_id = BUSINESS_ID /\ x.is_active
    \/ ~\E x \in customers :
          x.id = p.customer_id /\ x.business_id = BUSINESS_ID

\* C10: when an entity check fails the function returns at once: the result
\* is an early return whose findings all come from the entity checks.
C10_EntityShortCircuit ==
    (Checked /\ EntityFailure(lastArgs)) =>
        /\ ~FullPath(lastResult[1])
        /\ Types(lastResult[1]) \subseteq EntityTypes

----------------------------------------------------------------------------
(* C11 *)

\* the last request is a check of a proposal without a staff id
UnassignedCall ==
    /\ lastCall # <<>>
    /\ lastCall[1].op = "check_appointment_conflict"
    /\ lastCall[1].request.staff_id = NoStaff

StaffScopedTypes ==
    {"STAFF_NOT_FOUND", "STAFF_INACTIVE", "STAFF_NO_WORKING_HOURS",
     "STAFF_NOT_AVAILABLE", "OUTSIDE_STAFF_HOURS", "STAFF_TIME_OFF_ALL_DAY",
     "STAFF_TIME_OFF_OVERLAP", "STAFF_DOUBLE_BOOKING"}

\* C11: a proposal without a staff id is checked: the tool answers with a
\* result of checkAppointmentConflict, no result of the function for it has
\* a staff-not-found, staff-hours, staff-time-off or staff-double-booking
\* finding, and on a window whose service is at capacity the result has the
\* capacity finding.
C11_UnassignedProposals ==
    UnassignedCall =>
        /\ lastResult[1] \in checkAppointmentConflict(appointments, lastArgs,
                                                     lastCall[1].now)
        /\ \A r \in checkAppointmentConflict(appointments, lastArgs,
                                            lastCall[1].now) :
              /\ Types(r) \cap StaffScopedTypes = {}
              /\ (ValidWindow(lastArgs.start_time, lastArgs.end_time)
                  /\ CapacityReached(appointments, lastArgs))
                    => "SERVICE_CAPACITY_EXCEEDED" \in Types(r)

----------------------------------------------------------------------------
(* The checks as the specification states them *)

\* the open window of the business on the date of ts, as a set of at most
\* one working_hours row
BusinessWindow(ts) ==
    { h \in working_hours :
        /\ h.business_id = BUSINESS_ID
        /\ h.day_of_week = DayOfWeek(ts)
        /\ ~h.is_closed }

\* the working window of the staff member on the date of ts
StaffWindow(staff_id, ts) ==
    { h \in staff_working_hours :
        /\ h.staff_id = staff_id
        /\ h.day_of_week = DayOfWeek(ts)
        /\ h.is_available }

\* the window <<lo, hi>> lies inside the hours h of the date of lo:
\* open <= start and end <= close
Contains(h, lo, hi) ==
    /\ DateOnly(lo) * DayMinutes + h.open_time <= lo
    /\ hi <= DateOnly(lo) * DayMinutes + h.close_time

InsideBusinessHours(lo, hi) == \E h \in BusinessWindow(lo) : Contains(h, lo, hi)

InsideStaffHours(staff_id, lo, hi) ==
    \E h \in StaffWindow(staff_id, lo) : Contains(h, lo, hi)

\* the time-off entries of the staff member on the date of lo
TimeOffEntries(staff_id, lo) ==
    { t \in staff_time_off : t.staff_id = staff_id /\ t.date = DateOnly(lo) }

\* the partial entry t overlaps the window <<lo, hi>>
PartialOverlap(t, lo, hi) ==
    /\ ~t.is_all_day
    /\ HalfOpenOverlap(t.date * DayMinutes + t.start_time,
                       t.date * DayMinutes + t.end_time, lo, hi)

\* the active bookings, other than except, that overlap the window
ActiveOverlapping(appts, lo, hi, except) ==
    { i \in DOMAIN appts :
        /\ i # except
        /\ appts[i].status \in {"scheduled", "confirmed"}
        /\ HalfOpenOverlap(appts[i].start_time, appts[i].end_time, lo, hi) }

BusinessHoursTypes ==
    {"NO_BUSINESS_HOURS", "BUSINESS_CLOSED", "OUTSIDE_BUSINESS_HOURS"}

StaffHoursTypes ==
    {"STAFF_NO_WORKING_HOURS", "STAFF_NOT_AVAILABLE", "OUTSIDE_STAFF_HOURS"}

TimeOffTypes == {"STAFF_TIME_OFF_ALL_DAY", "STAFF_TIME_OFF_OVERLAP"}

\* the policy checks that proposal p violates at time now on the bookings
\* appts, each as the set of finding types that report it
ViolatedChecks(appts, p, now) ==
    LET lo == p.start_time
        hi == p.end_time
        others == ActiveOverlapping(appts, lo, hi, p.appointment_id)
    IN  { K \in { IF ~\E ss \in staff_services :
                        ss.staff_id = p.staff_id /\ ss.service_id = p.service_id
                  THEN {"STAFF_SERVICE_MISMATCH"} ELSE {},
                  IF ~InsideBusinessHours(lo, hi) THEN BusinessHoursTypes ELSE {},
                  IF ~InsideStaffHours(p.staff_id, lo, hi)
                  THEN StaffHoursTypes ELSE {},
                  IF \E t \in TimeOffEntries(p.staff_id, lo) :
                        t.is_all_day \/ PartialOverlap(t, lo, hi)
                  THEN TimeOffTypes ELSE {},
                  IF Cardinality({ i \in others :
                                     appts[i].service_id = p.service_id })
                        >= MaxBookings(p.service_id)
                  THEN {"SERVICE_CAPACITY_EXCEEDED"} ELSE {},
                  IF \E i \in others : appts[i].staff_id = p.staff_id
                  THEN {"STAFF_DOUBLE_BOOKING"} ELSE {},
                  IF \E i \in others : appts[i].customer_id = p.customer_id
                  THEN {"CUSTOMER_DOUBLE_BOOKING"} ELSE {},
                  IF lo >= hi THEN {"INVALID_TIME_RANGE"} ELSE {},
                  IF lo < now THEN {"PAST_DATE"} ELSE {} } : K # {} }

----------------------------------------------------------------------------
(* C12 *)

\* C12: when the service, staff member and customer of a proposal exist,
\* the result of checkAppointmentConflict holds exactly one finding for
\* each policy check the proposal violates (eligibility, business hours,
\* staff hours, time off, capacity, staff double-booking, customer
\* double-booking, range, past date), whatever the other checks found.
C12_PolicyChecksAccumulate ==
    (Checked /\ EntitiesExist(lastArgs)) =>
        \A K \in ViolatedChecks(appointments, lastArgs, lastCall[1].now) :
            Cardinality({ k \in DOMAIN lastResult[1].conflicts :
                            lastResult[1].conflicts[k].type \in K }) = 1

----------------------------------------------------------------------------
(* C13 *)

\* the number of the check that reports a finding type, in the numbering of
\* the specification
CheckNumber(type) ==
    CASE type \in {"SERVICE_NOT_FOUND", "SERVICE_INACTIVE"} -> 1
      [] type \in {"STAFF_NOT_FOUND", "STAFF_INACTIVE"} -> 2
      [] type = "CUSTOMER_NOT_FOUND" -> 3
      [] type = "STAFF_SERVICE_MISMATCH" -> 4
      [] type \in BusinessHoursTypes -> 5
      [] type \in StaffHoursTypes \cup TimeOffTypes -> 6
      [] type = "SERVICE_CAPACITY_EXCEEDED" -> 7
      [] type = "STAFF_DOUBLE_BOOKING" -> 8
      [] type = "CUSTOMER_DOUBLE_BOOKING" -> 9
      [] type = "INVALID_TIME_RANGE" -> 10
      [] type = "PAST_DATE" -> 11

\* C13: in every result of checkAppointmentConflict the findings appear in
\* the numeric order of the checks: capacity-exceeded before
\* staff-double-booking, before customer-double-booking, before
\* invalid-range, before past-date.
C13_FindingsInCheckOrder ==
    Checked =>
        \A j, k \in DOMAIN lastResult[1].conflicts :
            j < k => CheckNumber(lastResult[1].conflicts[j].type)
                       <= CheckNumber(lastResult[1].conflicts[k].type)

----------------------------------------------------------------------------
(* C14 *)

\* the bookings whose status is scheduled or confirmed, under their ids
ActiveOnly(appts) ==
    [i \in { j \in DOMAIN appts : appts[j].status \in {"scheduled", "confirmed"} }
        |-> appts[i]]

\* C14: bookings whose status is completed, canceled or no_show take no
\* part in any operation: the conflict checker, the two slot listings and
\* the availability check return what they return on the scheduled and
\* confirmed bookings alone.
C14_ActiveBookingsOnly ==
    lastCall # <<>> =>
        LET q == lastCall[1].request
            op == lastCall[1].op
            active == ActiveOnly(appointments)
        IN  /\ Checked =>
                 lastResult[1] \in checkAppointmentConflict(active, Args(q),
                                                            lastCall[1].now)
            /\ op = "get_available_time_slots" =>
                 lastResult[1] = getAvailableTimeSlots(active, q.service_id, q.date)
            /\ op = "get_service_time_slots" =>
                 lastResult[1] = getServiceTimeSlots(active, q.service_id, q.date)
            /\ op = "check_service_availability" =>
                 lastResult[1] = checkServiceAvailability(active, q.service_name,
                                                          q.date, q.time)

----------------------------------------------------------------------------
(* C15 *)

\* the staff member has no working-hours row for the weekday of ts
NoSchedule(staff_id, ts) ==
    ~\E h \in staff_working_hours :
        h.staff_id = staff_id /\ h.day_of_week = DayOfWeek(ts)

\* C15: a staff member without a working-hours row for the weekday is
\* unavailable at every entry point: a check of a proposal naming them has
\* an ERROR, no listed slot names them, and checkServiceAvailability does
\* not return them as staff of an available service.
C15_FailClosedOnMissingSchedule ==
    lastCall # <<>> =>
        LET q == lastCall[1].request
            op == lastCall[1].op
        IN  /\ (Checked /\ NoSchedule(q.staff_id, q.window[1])) =>
                 HasError(lastResult[1])
            /\ Listed =>
                 \A slot \in ListedSlots : ~NoSchedule(slot[1], slot[2])
            /\ (op = "check_service_availability" /\ lastResult[1].available) =>
                 \A r \in lastResult[1].staff :
                     ~NoSchedule(r.staff_id, q.date * DayMinutes)

----------------------------------------------------------------------------
(* C16 *)

\* C16: when the window of a proposal overlaps one of the partial time-off
\* entries the staff member has on the proposal's date, whichever entry it
\* is, the result of checkAppointmentConflict has the finding
\* STAFF_TIME_OFF_OVERLAP with severity ERROR.
C16_PartialTimeOffEveryEntry ==
    (/\ Checked
     /\ EntitiesExist(lastArgs)
     /\ ValidWindow(lastArgs.start_time, lastArgs.end_time)
     /\ \E t \in TimeOffEntries(lastArgs.staff_id, lastArgs.start_time) :
           PartialOverlap(t, lastArgs.start_time, lastArgs.end_time))
    => \E k \in DOMAIN lastResult[1].conflicts :
          /\ lastResult[1].conflicts[k].type = "STAFF_TIME_OFF_OVERLAP"
          /\ IsError(lastResult[1].conflicts[k])

----------------------------------------------------------------------------
(* C17 *)

\* the staff member has time off on the date of lo, partial entries only,
\* and the window <<lo, hi>> lies inside their working hours clear of it
FreeBesideTimeOff(staff_id, lo, hi) ==
    /\ TimeOffEntries(staff_id, lo) # {}
    /\ \A t \in TimeOffEntries(staff_id, lo) :
          ~t.is_all_day /\ ~PartialOverlap(t, lo, hi)
    /\ InsideStaffHours(staff_id, lo, hi)

\* C17: a staff member with partial time off stays available for the
\* windows inside their working hours that do not overlap it: the conflict
\* checker reports no time-off finding for such a window, and
\* checkServiceAvailability asked for the window's start returns the staff
\* member among the staff of the service.
C17_PartialTimeOffKeepsTheDay ==
    lastCall # <<>> =>
        LET q == lastCall[1].request
            op == lastCall[1].op
        IN  /\ (/\ Checked
                /\ EntitiesExist(lastArgs)
                /\ ValidWindow(lastArgs.start_time, lastArgs.end_time)
                /\ FreeBesideTimeOff(lastArgs.staff_id, lastArgs.start_time,
                                     lastArgs.end_time))
               => Types(lastResult[1]) \cap TimeOffTypes = {}
            /\ (/\ op = "check_service_availability"
                /\ q.time # NoTime
                /\ lastResult[1].service # <<>>)
               => LET lo == q.date * DayMinutes + q.time
                      hi == lo + lastResult[1].service[1].duration_minutes
                  IN  \A st \in EligibleStaff(q.service_name) :
                          FreeBesideTimeOff(st, lo, hi) =>
                              \E r \in lastResult[1].staff : r.staff_id = st

----------------------------------------------------------------------------
(* C18 *)

\* C18: for a proposal whose entities exist, checkAppointmentConflict
\* reports a business-closed ERROR when the weekday has no open window,
\* OUTSIDE_BUSINESS_HOURS when the window is not contained in the open
\* window (open <= start and end <= close), also when it ends on the
\* following day, and no business-hours finding when it is contained.
C18_BusinessHoursContainment ==
    (Checked /\ EntitiesExist(lastArgs)) =>
        LET lo == lastArgs.start_time
            hi == lastArgs.end_time
            types == Types(lastResult[1])
        IN  /\ BusinessWindow(lo) = {} =>
                 types \cap {"BUSINESS_CLOSED", "NO_BUSINESS_HOURS"} # {}
            /\ (BusinessWindow(lo) # {} /\ ~InsideBusinessHours(lo, hi)) =>
                 "OUTSIDE_BUSINESS_HOURS" \in types
            /\ InsideBusinessHours(lo, hi) => types \cap BusinessHoursTypes = {}
            /\ \A k \in DOMAIN lastResult[1].conflicts :
                 lastResult[1].conflicts[k].type \in BusinessHoursTypes =>
                     IsError(lastResult[1].conflicts[k])

----------------------------------------------------------------------------
(* C19 *)

\* the service, staff member and customer of p exist and are active, the
\* staff member provides the service, the window starts at or after now and
\* lies inside the business hours and the staff member's hours, no time off
\* of the staff member applies to it and no active booking overlaps it
CleanProposal(appts, p, now) ==
    /\ \E x \in services :
          x.id = p.service_id /\ x.business_id = BUSINESS_ID /\ x.is_active
    /\ \E x \in staff :
          x.id = p.staff_id /\ x.business_id = BUSINESS_ID /\ x.is_active
    /\ \E x \in customers : x.id = p.customer_id /\ x.business_id = BUSINESS_ID
    /\ \E ss \in staff_services :
          ss.staff_id = p.staff_id /\ ss.service_id = p.service_id
    /\ p.start_time >= now
    /\ InsideBusinessHours(p.start_time, p.end_time)
    /\ InsideStaffHours(p.staff_id, p.start_time, p.end_time)
    /\ \A t \in TimeOffEntries(p.staff_id, p.start_time) :
          ~t.is_all_day /\ ~PartialOverlap(t, p.start_time, p.end_time)
    /\ ActiveOverlapping(appts, p.start_time, p.end_time, p.appointment_id) = {}

\* the result without any finding
CleanResult(result) ==
    /\ result.conflicts = <<>>
    /\ ~result.hasConflicts
    /\ FullPath(result)
    /\ result.summary[1].canProceed
    /\ CanProceed(result)

\* C19 as stated: a proposal whose entities exist and are active, whose
\* staff member provides the service, whose window lies in the future
\* inside business and staff hours, clear of time off and of active
\* bookings, gets an empty conflict list, hasConflicts = false and
\* canProceed = true.
C19_ValidProposalAnyWindow ==
    (Checked /\ CleanProposal(appointments, lastArgs, lastCall[1].now)) =>
        CleanResult(lastResult[1])

\* C19 amended: the same for the proposals whose window has start < end.
C19_ValidProposalAccepted ==
    (/\ Checked
     /\ ValidWindow(lastArgs.start_time, lastArgs.end_time)
     /\ CleanProposal(appointments, lastArgs, lastCall[1].now))
    => CleanResult(lastResult[1])

\* a valid proposal was checked next to an active booking of the same
\* staff member that ends when the proposal starts, and the result is clean
C19_Witness ==
    /\ Checked
    /\ ValidWindow(lastArgs.start_time, lastArgs.end_time)
    /\ CleanProposal(appointments, lastArgs, lastCall[1].now)
    /\ \E i \in DOMAIN appointments :
          /\ appointments[i].status = "scheduled"
          /\ appointments[i].staff_id = lastArgs.staff_id
          /\ appointments[i].end_time = lastArgs.start_time
    /\ CleanResult(lastResult[1])

----------------------------------------------------------------------------
(* C20 *)

\* the result has exactly one PAST_DATE finding, of severity WARNING, and
\* when none of its findings has severity ERROR it lets the booking proceed
PastDateAdvisory(result) ==
    /\ Cardinality({ k \in DOMAIN result.conflicts :
                       result.conflicts[k].type = "PAST_DATE" }) = 1
    /\ \A k \in DOMAIN result.conflicts :
          result.conflicts[k].type = "PAST_DATE" =>
              result.conflicts[k].severity = "WARNING"
    /\ (\A k \in DOMAIN result.conflicts :
           result.conflicts[k].severity # "ERROR")
       => (FullPath(result) /\ result.summary[1].canProceed
           /\ CanProceed(result))

\* C20 as stated: every proposal whose start lies before the evaluation
\* time gets exactly one PAST_DATE finding of severity WARNING, and
\* canProceed = true if no ERROR is present.
C20_PastDateAnyProposal ==
    (Checked /\ lastArgs.start_time < lastCall[1].now) =>
        PastDateAdvisory(lastResult[1])

\* C20 amended: the same for the proposals whose service, staff member and
\* customer exist.
C20_PastDateAdvisory ==
    (/\ Checked
     /\ EntitiesExist(lastArgs)
     /\ lastArgs.start_time < lastCall[1].now)
    => PastDateAdvisory(lastResult[1])

\* a proposal in the past was checked and PAST_DATE is its only finding
C20_Witness ==
    /\ Checked
    /\ EntitiesExist(lastArgs)
    /\ lastArgs.start_time < lastCall[1].now
    /\ Types(lastResult[1]) = {"PAST_DATE"}
    /\ lastResult[1].summary[1].canProceed

----------------------------------------------------------------------------
(* C21 *)

\* C21: for every proposal with start >= end whose service, staff member
\* and customer exist, the result of checkAppointmentConflict has exactly
\* one ERROR INVALID_TIME_RANGE and canProceed = false, whatever the other
\* checks find.
C21_InvalidRange ==
    (/\ Checked
     /\ EntitiesExist(lastArgs)
     /\ lastArgs.start_time >= lastArgs.end_time)
    => /\ Cardinality({ k \in DOMAIN lastResult[1].conflicts :
                          /\ lastResult[1].conflicts[k].type = "INVALID_TIME_RANGE"
                          /\ lastResult[1].conflicts[k].severity = "ERROR" }) = 1
       /\ FullPath(lastResult[1])
       /\ ~lastResult[1].summary[1].canProceed
       /\ ~CanProceed(lastResult[1])

\* a proposal whose start equals its end was checked; the range finding
\* is its only one
C21_Witness ==
    /\ Checked
    /\ EntitiesExist(lastArgs)
    /\ lastArgs.start_time = lastArgs.end_time
    /\ Types(lastResult[1]) = {"INVALID_TIME_RANGE"}
    /\ ~lastResult[1].summary[1].canProceed

----------------------------------------------------------------------------
(* C22 *)

----------------------------------------------------------------------------
(* C23 *)

\* C23: an expected business condition is a value of the result, never a
\* thrown error: a check of a proposal naming an unknown service, staff
\* member or customer returns a result with the not-found finding, and no
\* slot listing throws, whatever service and date it is asked for.
C23_ViolationsAreData ==
    lastCall # <<>> =>
        /\ (Checked /\ ~EntitiesExist(lastArgs)) =>
              Types(lastResult[1]) \cap {"SERVICE_NOT_FOUND", "STAFF_NOT_FOUND",
                                         "CUSTOMER_NOT_FOUND"} # {}
        /\ lastCall[1].op = "get_available_time_slots" => ~lastResult[1].threw
        /\ lastCall[1].op = "get_service_time_slots" =>
              lastResult[1].available \in BOOLEAN

----------------------------------------------------------------------------
(* C25 *)

\* max(0, maxBookingsPerSlot - number of active bookings of the service
\* that overlap the window <<lo, hi>>)
RemainingCapacity(appts, service_id, lo, hi) ==
    LET count == Cardinality({ i \in ActiveOverlapping(appts, lo, hi, NoId) :
                                 appts[i].service_id = service_id })
    IN  IF count >= MaxBookings(service_id) THEN 0
        ELSE MaxBookings(service_id) - count

\* C25: every slot a slot listing returns reports as remaining capacity
\* (available_slots, remaining_slots) the value max(0, maxBookingsPerSlot -
\* active bookings of the service overlapping the slot), and that value is
\* not 0.
C25_CapacityInListings ==
    Listed =>
        LET q == lastCall[1].request
            slots == lastResult[1].timeSlots
            day == q.date * DayMinutes
        IN  \A k \in DOMAIN slots :
                LET reported ==
                        IF lastCall[1].op = "get_available_time_slots"
                        THEN slots[k].available_slots
                        ELSE slots[k].remaining_slots
                    lo == IF lastCall[1].op = "get_available_time_slots"
                          THEN day + timeToMinutes(slots[k].start_time)
                          ELSE day + slots[k].start_time
                    hi == IF lastCall[1].op = "get_available_time_slots"
                          THEN day + timeToMinutes(slots[k].end_time)
                          ELSE day + slots[k].end_time
                IN  /\ reported = RemainingCapacity(appointments, q.service_id,
                                                    lo, hi)
                    /\ reported > 0

----------------------------------------------------------------------------
(* C26 *)

\* the active bookings of the proposal's staff member, other than
\* appointment_id, that overlap the proposal window
StaffOverlaps(appts, p) ==
    { i \in ActiveOverlapping(appts, p.start_time, p.end_time, p.appointment_id) :
        appts[i].staff_id = p.staff_id }

\* the result reports a staff double-booking, with one of the bookings ids
\* attached, exactly when ids is not empty
ReportsStaffDoubleBooking(result, ids) ==
    LET found == { k \in DOMAIN result.conflicts :
                     result.conflicts[k].type = "STAFF_DOUBLE_BOOKING" }
    IN  /\ ids = {} => found = {}
        /\ ids # {} =>
              /\ Cardinality(found) = 1
              /\ \A k \in found :
                    /\ result.conflicts[k].severity = "ERROR"
                    /\ result.conflicts[k].conflictingAppointment \in ids

\* C26 as stated: for every proposal, checkAppointmentConflict reports
\* STAFF_DOUBLE_BOOKING with a really overlapping booking attached when an
\* active booking of the staff member, other than appointment_id, overlaps
\* the window, and reports none otherwise.
C26_StaffDoubleBookingAnyProposal ==
    Checked =>
        ReportsStaffDoubleBooking(lastResult[1],
                                  StaffOverlaps(appointments, lastArgs))

\* C26 amended: the same for the proposals with start < end whose service,
\* staff member and customer exist.
C26_StaffDoubleBooking ==
    (/\ Checked
     /\ EntitiesExist(lastArgs)
     /\ ValidWindow(lastArgs.start_time, lastArgs.end_time))
    => ReportsStaffDoubleBooking(lastResult[1],
                                 StaffOverlaps(appointments, lastArgs))

\* a proposal that starts inside an active booking of its staff member was
\* checked, next to a canceled booking of the same staff member, and the
\* finding refers to the active one
C26_Witness ==
    /\ Checked
    /\ EntitiesExist(lastArgs)
    /\ \E i \in StaffOverlaps(appointments, lastArgs) :
          /\ appointments[i].start_time < lastArgs.start_time
          /\ lastArgs.start_time < appointments[i].end_time
          /\ \E k \in DOMAIN lastResult[1].conflicts :
                /\ lastResult[1].conflicts[k].type = "STAFF_DOUBLE_BOOKING"
                /\ lastResult[1].conflicts[k].conflictingAppointment = i
    /\ \E j \in DOMAIN appointments :
          /\ appointments[j].status = "canceled"
          /\ appointments[j].staff_id = lastArgs.staff_id

----------------------------------------------------------------------------
(* C27 *)

\* the active bookings of the proposal's customer, other than
\* appointment_id, that overlap the proposal window, with or without staff
CustomerOverlaps(appts, p) ==
    { i \in ActiveOverlapping(appts, p.start_time, p.end_time, p.appointment_id) :
        appts[i].customer_id = p.customer_id }

\* C27: for a proposal with start < end whose entities exist, whenever the
\* customer has an active booking, other than appointment_id, that overlaps
\* the window, with or without a staff member and of whatever service, the
\* result of checkAppointmentConflict has an ERROR CUSTOMER_DOUBLE_BOOKING
\* with one of those bookings attached.
C27_CustomerDoubleBooking ==
    (/\ Checked
     /\ EntitiesExist(lastArgs)
     /\ ValidWindow(lastArgs.start_time, lastArgs.end_time)
     /\ CustomerOverlaps(appointments, lastArgs) # {})
    => \E k \in DOMAIN lastResult[1].conflicts :
          /\ lastResult[1].conflicts[k].type = "CUSTOMER_DOUBLE_BOOKING"
          /\ lastResult[1].conflicts[k].severity = "ERROR"
          /\ lastResult[1].conflicts[k].conflictingAppointment
                \in CustomerOverlaps(appointments, lastArgs)

----------------------------------------------------------------------------
(* C28 *)

\* the slots <<start, end>> (minutes of the day) tile the window
\* <<open, close>> for the duration: strictly ascending starts on the
\* 30-minute grid of open, each of the duration's length, none past close
Tiles(slots, open, close, duration) ==
    /\ \A j, k \in DOMAIN slots : j < k => slots[j][1] < slots[k][1]
    /\ \A k \in DOMAIN slots :
          /\ slots[k][2] - slots[k][1] = duration
          /\ slots[k][1] >= open
          /\ (slots[k][1] - open) % slotInterval = 0
          /\ slots[k][2] <= close

\* the subsequence of the elements of seq that satisfy Test
RECURSIVE SelectStaff(_, _)
SelectStaff(seq, staff_id) ==
    IF seq = <<>> THEN <<>>
    ELSE (IF Head(seq).staff_id = staff_id
          THEN << <<Head(seq).start_time, Head(seq).end_time>> >> ELSE <<>>)
         \o SelectStaff(Tail(seq), staff_id)

\* C28: the slots a listing returns tile the open window: those of
\* getAvailableTimeSlots the business hours of the date, those
\* getServiceTimeSlots returns for a staff member that staff member's
\* working hours; strictly ascending starts on the 30-minute grid, each of
\* the service's duration, none ending after the window.
C28_SlotTiling ==
    Listed =>
        LET q == lastCall[1].request
            slots == lastResult[1].timeSlots
            duration == (CHOOSE s \in services : s.id = q.service_id)
                            .duration_minutes
        IN  IF lastCall[1].op = "get_available_time_slots"
            THEN slots # <<>> =>
                   \E h \in BusinessWindow(q.date * DayMinutes) :
                      Tiles([k \in DOMAIN slots |->
                               <<timeToMinutes(slots[k].start_time),
                                 timeToMinutes(slots[k].end_time)>>],
                            h.open_time, h.close_time, duration)
            ELSE \A k \in DOMAIN slots :
                   \E h \in StaffWindow(slots[k].staff_id, q.date * DayMinutes) :
                      Tiles(SelectStaff(slots, slots[k].staff_id),
                            h.open_time, h.close_time, duration)

----------------------------------------------------------------------------
(* Bookings and proposals around midnight *)

\* Monday 23:00 - Tuesday 01:00 and Tuesday 00:00 - 01:00
NightBookWindows == { <<1380, 1500>>, <<1440, 1500>> }

NightProposalWindows == { <<1380, 1440>>, <<1440, 1500>>, <<1500, 1560>> }

NightRequests ==
    [customer_id : {"c1"}, service_id : {"svc1", "svc2"},
     staff_id : {"st1", NoStaff}, window : NightBookWindows]

NightProposals ==
    [service_id : {"svc1", "svc2"}, staff_id : {"st1", "st2"},
     customer_id : {"c2"}, window : NightProposalWindows,
     appointment_id : {NoId} \cup (1..MaxAppts)]

\* tool create_appointment -> createAppointment, for a window of
\* NightBookWindows
CreateNightAppointment ==
    /\ lastCall = <<>>
    /\ UNCHANGED memVars
    /\ Len(appointments) < MaxAppts
    /\ \E q \in NightRequests :
        /\ appointments' = Append(appointments,
               [customer_id |-> q.customer_id, service_id |-> q.service_id,
                staff_id |-> q.staff_id, start_time |-> q.window[1],
                end_time |-> q.window[2], status |-> "scheduled"])
        /\ lastCall' = << [op |-> "create_appointment", request |-> q] >>
        /\ lastResult' = << Len(appointments) + 1 >>

\* tool check_appointment_conflict -> checkAppointmentConflict, for a
\* proposal of NightProposals
CheckNightProposal ==
    /\ lastCall = <<>>
    /\ UNCHANGED memVars
    /\ \E q \in NightProposals, now \in NowSet :
        \E r \in checkAppointmentConflict(appointments, Args(q), now) :
            /\ lastCall' = << [op |-> "check_appointment_conflict",
                               request |-> q, now |-> now] >>
            /\ lastResult' = << r >>
            /\ UNCHANGED appointments

NextNight ==
    \/ CreateNightAppointment
    \/ CancelAppointment
    \/ CheckNightProposal
    \/ Respond

SpecNight == Init /\ [][NextNight]_vars

----------------------------------------------------------------------------
(* C24 *)

\* the active bookings of the proposal's service that overlap its window,
\* other than the booking the proposal names
SameServiceOverlapping(appts, p) ==
    { i \in ActiveOverlapping(appts, p.start_time, p.end_time, p.appointment_id) :
        appts[i].service_id = p.service_id }

\* C24: for a proposal whose service, staff member and customer exist and
\* whose start is before its end, checkAppointmentConflict reports
\* SERVICE_CAPACITY_EXCEEDED exactly when the active bookings of the same
\* service that overlap the window (whatever their staff, the booking
\* appointment_id left out) number at least the service's
\* max_bookings_per_slot.
C24_CapacityCheck ==
    (/\ Checked
     /\ EntitiesExist(lastArgs)
     /\ ValidWindow(lastArgs.start_time, lastArgs.end_time))
    => ("SERVICE_CAPACITY_EXCEEDED" \in Types(lastResult[1])
        <=> Cardinality(SameServiceOverlapping(appointments, lastArgs))
               >= MaxBookings(lastArgs.service_id))

----------------------------------------------------------------------------
(* C6 across midnight *)

\* C6: once the active bookings of a service that overlap a window number
\* exactly max_bookings_per_slot, the check of a further proposal of that
\* service on that window (its staff member and customer exist) reports
\* SERVICE_CAPACITY_EXCEEDED, whatever the date the bookings start on.
C6_CapacityFilled ==
    (/\ Checked
     /\ FurtherProposal(lastArgs)
     /\ Cardinality(SameServiceOverlapping(appointments, lastArgs))
          = MaxBookings(lastArgs.service_id))
    => "SERVICE_CAPACITY_EXCEEDED" \in Types(lastResult[1])

----------------------------------------------------------------------------
(* checkAppointmentConflict while other requests write *)

\* the value checkAppointmentConflict returns when its staff query reads
\* the table staffAppts, its customer query customerAppts and its capacity
\* query capacityAppts: every query takes its own client from the pool, no
\* transaction spans them
checkAppointmentConflictQueries(staffAppts, customerAppts, capacityAppts, p, now) ==
    LET serviceRows == { s \in services :
                           s.id = p.service_id /\ s.business_id = BUSINESS_ID }
        staffRows == { s \in staff :
                         s.id = p.staff_id /\ s.business_id = BUSINESS_ID }
        customerRows == { c \in customers :
                            c.id = p.customer_id /\ c.business_id = BUSINESS_ID }
        service == CHOOSE s \in serviceRows : TRUE
        staffRow == CHOOSE s \in staffRows : TRUE
        c1 == Opt(~service.is_active, Finding("SERVICE_INACTIVE", "ERROR", NoId))
        c2 == c1 \o Opt(~staffRow.is_active,
                        Finding("STAFF_INACTIVE", "ERROR", NoId))
        c4 == c2 \o Opt(~\E ss \in staff_services :
                            ss.staff_id = p.staff_id /\ ss.service_id = p.service_id,
                        Finding("STAFF_SERVICE_MISMATCH", "ERROR", NoId))
        timeOffRows == { t \in staff_time_off :
                           t.staff_id = p.staff_id
                           /\ t.date = DateOnly(p.start_time) }
    IN  IF serviceRows = {}
        THEN { EarlyReturn(<<Finding("SERVICE_NOT_FOUND", "ERROR", NoId)>>) }
        ELSE IF staffRows = {}
        THEN { EarlyReturn(c1 \o <<Finding("STAFF_NOT_FOUND", "ERROR", NoId)>>) }
        ELSE IF customerRows = {}
        THEN { EarlyReturn(c2 \o <<Finding("CUSTOMER_NOT_FOUND", "ERROR", NoId)>>) }
        ELSE { FullReturn(c4 \o HoursFindings(p, off)
                             \o BookingFindings(capacityAppts, p, now, service,
                                                sRow, cRow)) :
                 off \in FirstRow(timeOffRows),
                 sRow \in FirstRow(StaffConflictRows(staffAppts, p)),
                 cRow \in FirstRow(CustomerConflictRows(customerAppts, p)) }

ConcurrentRequests ==
    [customer_id : {"c1"}, service_id : {"svc1"}, staff_id : {"st1", NoStaff},
     window : BookWindows]

ConcurrentProposals ==
    [service_id : {"svc1"}, staff_id : {"st1"}, customer_id : {"c1", "c2", "cX"},
     window : { <<540, 600>>, <<600, 660>> }, appointment_id : {NoId}]

\* a check is between its first query and its return
Running == lastCall # <<>> /\ lastCall[1].pc # "done"

\* the call in flight with the table t added to the tables the database
\* held during the call
Observe(call, t) ==
    IF call = <<>> THEN call
    ELSE << [call[1] EXCEPT !.seen = call[1].seen \cup {t}] >>

\* another request's create_appointment -> createAppointment commits its
\* INSERT, before, between or after the queries of the check in flight
ConcurrentCreate ==
    /\ lastCall = <<>> \/ Running
    /\ UNCHANGED memVars
    /\ Len(appointments) < MaxAppts
    /\ \E q \in ConcurrentRequests :
        LET table == Append(appointments,
               [customer_id |-> q.customer_id, service_id |-> q.service_id,
                staff_id |-> q.staff_id, start_time |-> q.window[1],
                end_time |-> q.window[2], status |-> "scheduled"])
        IN  /\ appointments' = table
            /\ lastCall' = Observe(lastCall, table)
            /\ UNCHANGED lastResult

\* another request's cancel_appointment commits its UPDATE
ConcurrentCancel ==
    /\ lastCall = <<>> \/ Running
    /\ UNCHANGED memVars
    /\ \E id \in DOMAIN appointments :
        /\ appointments[id].status \in ActiveStatuses
        /\ LET table == [appointments EXCEPT ![id].status = "canceled"]
           IN  /\ appointments' = table
               /\ lastCall' = Observe(lastCall, table)
        /\ UNCHANGED lastResult

\* check_appointment_conflict up to the staff double-booking query: the
\* service, staff, customer, hours and time-off queries, none of which
\* reads appointments; the early returns end the call
BeginCheck ==
    /\ lastCall = <<>>
    /\ UNCHANGED memVars
    /\ \E q \in ConcurrentProposals, now \in NowSet :
        LET call(pc) == [op |-> "check_appointment_conflict", request |-> q,
                         now |-> now, pc |-> pc, seen |-> {appointments},
                         staffAppts |-> <<>>, customerAppts |-> <<>>]
            early == { r \in checkAppointmentConflict(appointments, Args(q), now) :
                         r.summary = <<>> }
        IN  IF early # {}
            THEN /\ lastCall' = << call("done") >>
                 /\ \E r \in early : lastResult' = << r >>
            ELSE /\ lastCall' = << call("staff") >>
                 /\ lastResult' = <<>>
    /\ UNCHANGED appointments

\* await query(staffConflictQuery, ...)
StaffQuery ==
    /\ lastCall # <<>>
    /\ UNCHANGED memVars
    /\ lastCall[1].pc = "staff"
    /\ lastCall' = << [lastCall[1] EXCEPT !.staffAppts = appointments,
                                          !.pc = "customer"] >>
    /\ UNCHANGED <<appointments, lastResult>>

\* await query(customerConflictQuery, ...)
CustomerQuery ==
    /\ lastCall # <<>>
    /\ UNCHANGED memVars
    /\ lastCall[1].pc = "customer"
    /\ lastCall' = << [lastCall[1] EXCEPT !.customerAppts = appointments,
                                          !.pc = "capacity"] >>
    /\ UNCHANGED <<appointments, lastResult>>

\* await query(serviceConflictQuery, ...), the checks that follow it and
\* the return
CapacityQuery ==
    /\ lastCall # <<>>
    /\ UNCHANGED memVars
    /\ lastCall[1].pc = "capacity"
    /\ \E r \in checkAppointmentConflictQueries(lastCall[1].staffAppts,
                    lastCall[1].customerAppts, appointments,
                    Args(lastCall[1].request), lastCall[1].now) :
          lastResult' = << r >>
    /\ lastCall' = << [lastCall[1] EXCEPT !.pc = "done"] >>
    /\ UNCHANGED appointments

\* the result is sent as the tool response
RespondCheck ==
    /\ lastCall # <<>>
    /\ UNCHANGED memVars
    /\ lastCall[1].pc = "done"
    /\ lastCall' = <<>>
    /\ lastResult' = <<>>
    /\ UNCHANGED appointments

NextConcurrent ==
    \/ ConcurrentCreate
    \/ ConcurrentCancel
    \/ BeginCheck
    \/ StaffQuery
    \/ CustomerQuery
    \/ CapacityQuery
    \/ RespondCheck

SpecConcurrent == Init /\ [][NextConcurrent]_vars

----------------------------------------------------------------------------
(* C29 *)

\* a check has returned
CheckDone == lastCall # <<>> /\ lastCall[1].pc = "done"

\* C29: the result of a checkAppointmentConflict call is a result the
\* function gives on one single state of the bookings table: the table
\* before or the table after each write another request committed while
\* the call was running.
C29_SnapshotConsistency ==
    CheckDone =>
        \E t \in lastCall[1].seen :
            lastResult[1] \in checkAppointmentConflict(t,
                                  Args(lastCall[1].request), lastCall[1].now)

----------------------------------------------------------------------------
(* The in-memory appointment server *)

\* text is a sequence of one-character strings
Digits == <<"0", "1", "2", "3", "4", "5", "6", "7", "8", "9">>

IsDigit(c) == \E k \in DOMAIN Digits : Digits[k] = c

DigitValue(c) == (CHOOSE k \in DOMAIN Digits : Digits[k] = c) - 1

\* Number.prototype.toString of a non-negative integer: its decimal digits
RECURSIVE toString(_)
toString(n) ==
    IF n < 10 THEN << Digits[n + 1] >>
    ELSE toString(n \div 10) \o << Digits[(n % 10) + 1] >>

\* generateId with the id taken from the array's length instead of the
\* counter
generateId_FromLength(counter) ==
    [id |-> toString(Len(memAppointments) + 1), nextId |-> counter + 1]

\* (nextId++).toString(): the id returned and the counter after the call
generateId(counter) == [id |-> toString(counter), nextId |-> counter + 1]

\* /^\d{4}-\d{2}-\d{2}$/ and a Date that is not NaN: month 01 to 12, day 01
\* to 31
isValidDate(dateString) ==
    /\ Len(dateString) = 10
    /\ \A k \in {1, 2, 3, 4, 6, 7, 9, 10} : IsDigit(dateString[k])
    /\ dateString[5] = "-"
    /\ dateString[8] = "-"
    /\ LET month == 10 * DigitValue(dateString[6]) + DigitValue(dateString[7])
           day == 10 * DigitValue(dateString[9]) + DigitValue(dateString[10])
       IN  month \in 1..12 /\ day \in 1..31

\* /^([01]?\d|2[0-3]):[0-5]\d$/
isValidTime(timeString) ==
    LET minutesAt(k) == /\ timeString[k] = ":"
                        /\ timeString[k + 1] \in {"0", "1", "2", "3", "4", "5"}
                        /\ IsDigit(timeString[k + 2])
    IN  \/ /\ Len(timeString) = 4
           /\ IsDigit(timeString[1])
           /\ minutesAt(2)
        \/ /\ Len(timeString) = 5
           /\ \/ timeString[1] \in {"0", "1"} /\ IsDigit(timeString[2])
              \/ timeString[1] = "2" /\ timeString[2] \in {"0", "1", "2", "3"}
           /\ minutesAt(3)

\* arguments of create_appointment: title, date and time
Titles == { "", "Checkup" }

Dates ==
    { <<"2", "0", "2", "5", "-", "0", "1", "-", "1", "5">>,
      <<"2", "0", "2", "5", "-", "1", "3", "-", "0", "1">>,
      <<"1", "5", "/", "0", "1", "/", "2", "0", "2", "5">> }

TimeTexts ==
    { <<"0", "9", ":", "3", "0">>, <<"9", ":", "3", "0">>,
      <<"2", "5", ":", "0", "0">> }

CreateArgs == [title : Titles, date : Dates, time : TimeTexts]

\* arguments of get_appointment and delete_appointment: the ids the server
\* can assign, "01", "" and the id after the last one
IdArgs == { toString(k) : k \in 1..(MaxCreates + 1) } \cup { <<"0", "1">>, <<>> }

\* Array.prototype.findIndex: the first index whose appointment has the
\* id, 0 when there is none (the code's -1)
findIndex(array, id) ==
    IF \E k \in DOMAIN array : array[k].id = id
    THEN CHOOSE k \in DOMAIN array :
            /\ array[k].id = id
            /\ \A j \in 1..(k - 1) : array[j].id # id
    ELSE 0

\* array.splice(index, 1): the array without its element at index
splice(array, index) ==
    [k \in 1..(Len(array) - 1) |-> IF k < index THEN array[k] ELSE array[k + 1]]

\* the response with isError: true
ToolError == [isError |-> TRUE]

\* tool create_appointment
create_appointment ==
    /\ lastCall = <<>>
    /\ nextId <= MaxCreates
    /\ UNCHANGED appointments
    /\ \E args \in CreateArgs :
        /\ lastCall' = << [op |-> "create_appointment", request |-> args] >>
        /\ IF args.title # "" /\ isValidDate(args.date) /\ isValidTime(args.time)
           THEN LET generated == generateId(nextId)
                IN  /\ nextId' = generated.nextId
                    /\ assignedIds' = assignedIds \cup {generated.id}
                    /\ memAppointments' = Append(memAppointments,
                           [id |-> generated.id, title |-> args.title,
                            date |-> args.date, time |-> args.time])
                    /\ lastResult' = << [isError |-> FALSE, id |-> generated.id] >>
           ELSE /\ UNCHANGED memVars
                /\ lastResult' = << ToolError >>

\* tool list_appointments
list_appointments ==
    /\ lastCall = <<>>
    /\ UNCHANGED <<appointments, memVars>>
    /\ lastCall' = << [op |-> "list_appointments"] >>
    /\ lastResult' = << [isError |-> FALSE, list |-> memAppointments] >>

\* tool get_appointment
get_appointment ==
    /\ lastCall = <<>>
    /\ UNCHANGED <<appointments, memVars>>
    /\ \E id \in IdArgs :
        /\ lastCall' = << [op |-> "get_appointment", request |-> id] >>
        /\ lastResult' =
             IF id = <<>> \/ findIndex(memAppointments, id) = 0
             THEN << ToolError >>
             ELSE << [isError |-> FALSE,
                      appointment |-> memAppointments[findIndex(memAppointments, id)]] >>

\* tool delete_appointment
delete_appointment ==
    /\ lastCall = <<>>
    /\ UNCHANGED <<appointments, nextId, assignedIds>>
    /\ \E id \in IdArgs :
        LET index == findIndex(memAppointments, id)
        IN  /\ lastCall' = << [op |-> "delete_appointment", request |-> id] >>
            /\ IF id = <<>> \/ index = 0
               THEN /\ UNCHANGED memAppointments
                    /\ lastResult' = << ToolError >>
               ELSE /\ memAppointments' = splice(memAppointments, index)
                    /\ lastResult' = << [isError |-> FALSE,
                                         deleted |-> memAppointments[index]] >>

NextMem ==
    \/ create_appointment
    \/ list_appointments
    \/ get_appointment
    \/ delete_appointment
    \/ Respond

SpecMem == Init /\ [][NextMem]_vars

----------------------------------------------------------------------------
(* C30 *)

\* the ids of the stored appointments are pairwise distinct
DistinctIds(array) ==
    \A j, k \in DOMAIN array : j # k => array[j].id # array[k].id

\* the step serves the tool op and answers with isError = error
Served(op, error) ==
    /\ lastCall = <<>>
    /\ lastCall' # <<>>
    /\ lastCall'[1].op = op
    /\ lastResult'[1].isError = error

\* C30: in the in-memory server the ids of the stored appointments are
\* pairwise distinct after every call; a create that succeeds stores its
\* appointment under an id that no earlier create was given, deleted
\* appointments included; a create that fails validation and a delete of
\* an unknown id leave the array and the counter unchanged.
C30_IdsNeverReused ==
    [][/\ DistinctIds(memAppointments')
       /\ Served("create_appointment", FALSE) =>
             /\ lastResult'[1].id \notin assignedIds
             /\ memAppointments'[Len(memAppointments')].id = lastResult'[1].id
             /\ Len(memAppointments') = Len(memAppointments) + 1
       /\ (Served("create_appointment", TRUE)
           \/ Served("delete_appointment", TRUE)) =>
             UNCHANGED <<memAppointments, nextId>>]_vars

\* an appointment was created after an earlier one was deleted
C30_Witness ==
    /\ lastCall # <<>>
    /\ lastCall[1].op = "create_appointment"
    /\ ~lastResult[1].isError
    /\ Cardinality(assignedIds) > Len(memAppointments)
    /\ Len(memAppointments) >= 2

====
